---- MODULE Spec2Model ----
(***************************************************************************)
(* Treasure Hunt: the static page generator (generator/generate.js), the   *)
(* client runtime it ships (dist/js/game.js) and the monitoring collector  *)
(* (server/server.js).                                                     *)
(*                                                                         *)
(* Strings are sequences of one-character strings, so that toUpperCase()   *)
(* and trim() are computed.  A digest is an opaque token: it is a function *)
(* of the bytes hashed, it is injective (no collisions) and it does not    *)
(* contain its preimage.                                                   *)
(***************************************************************************)
EXTENDS Integers, Sequences, FiniteSets, TLC

\* ------------------------------------------------------------------------
\* Bounds
\* ------------------------------------------------------------------------
MaxSeqLen == 3      \* longest team sequence
MaxRuns == 2        \* generate() runs in one behaviour
MaxInputLen == 2    \* longest string considered as a code variant
MaxPending == 2     \* digest computations awaited at once on a page
MaxInflight == 1    \* tracking requests not yet settled
MaxHideTimers == 1  \* armed timeouts that hide the error message
MaxClock == 3       \* last reading of Date.now() considered
MaxPenalty == 6     \* largest stored penalty considered
MaxEvents == 2      \* longest event log of the collector between two resets
MaxStep == 1        \* largest step number in a notification sent to the collector
MaxSubscribers == 1 \* connections to the event stream open at once
MaxStream == 2      \* messages written to one event stream connection

\* time is counted in periods of the countdown's interval timer (1000 ms);
\* a minute is MinuteLen periods
MinuteLen == 1

\* ------------------------------------------------------------------------
\* JavaScript values
\* ------------------------------------------------------------------------
\* null / undefined where a string is expected (no character is "null")
NULL == <<"null">>
\* null where a number is expected
NoNumber == -1

Chars == {"a", "b", "A", "B", " "}

RECURSIVE StringsOfLen(_)
StringsOfLen(n) ==
    IF n = 0 THEN {<<>>}
    ELSE {Append(s, c) : s \in StringsOfLen(n - 1), c \in Chars}

AllStrings == UNION {StringsOfLen(n) : n \in 0..MaxInputLen}

UpperChar(c) == CASE c = "a" -> "A" [] c = "b" -> "B" [] OTHER -> c

toUpperCase(s) == [i \in 1..Len(s) |-> UpperChar(s[i])]

RECURSIVE trimStart(_)
trimStart(s) == IF s # <<>> /\ Head(s) = " " THEN trimStart(Tail(s)) ELSE s

RECURSIVE trimEnd(_)
trimEnd(s) ==
    IF s # <<>> /\ s[Len(s)] = " " THEN trimEnd(SubSeq(s, 1, Len(s) - 1)) ELSE s

trim(s) == trimEnd(trimStart(s))

\* str.toUpperCase().trim(), the normalization both digests apply
Normalize(str) == trim(toUpperCase(str))

\* mutation: a missing code is digested like a string
Throws_never(str) == FALSE

\* calling .toUpperCase() on null or undefined raises a TypeError
Throws(str) == str = NULL

\* needle occurs in hay as a contiguous run
Includes(hay, needle) ==
    \E k \in 0..(Len(hay) - Len(needle)) :
        SubSeq(hay, k + 1, k + Len(needle)) = needle

\* a || b for numbers: 0 and null are falsy
OrNum(a, b) == IF a = NoNumber \/ a = 0 THEN b ELSE a

\* ------------------------------------------------------------------------
\* Deterministic link namer
\* ------------------------------------------------------------------------
\* the bytes a digest is computed over, as a number: distinct strings give
\* distinct numbers, so that the digests below have no collisions
CharCode(c) ==
    CASE c = "a" -> 1 [] c = "b" -> 2 [] c = "A" -> 3 [] c = "B" -> 4
      [] c = " " -> 5 [] OTHER -> 6

RECURSIVE Bytes(_)
Bytes(s) == IF s = <<>> THEN 0 ELSE CharCode(Head(s)) + 7 * Bytes(Tail(s))

\* mutation: the digest is taken without case-folding
md5_cased(str) == <<"md5", ToString(Bytes(trim(str)))>>

\* first 16 hex characters of the MD5 of the normalized string
md5(str) == <<"md5", ToString(Bytes(Normalize(str)))>>

\* hex SHA-256 of the normalized string
sha256(str) == <<"sha256", ToString(Bytes(Normalize(str)))>>

\* the digest part of a generated filename (prefix and ".html" removed)
DigestOf(filename) == SubSeq(filename, Len(filename) - 2, Len(filename) - 1)

\* mutation: the filename does not carry the step number
StepFilename_unnumbered(i, code) == <<"s", "_">> \o md5(code) \o <<".html">>

StepFilename(i, code) == <<"s", ToString(i + 1), "_">> \o md5(code) \o <<".html">>

StartFilename(code) == <<"start", "_">> \o md5(code) \o <<".html">>

\* ------------------------------------------------------------------------
\* Source content: tasks/*.md, teams/*.md, CONFIG.md
\* ------------------------------------------------------------------------
\* frontmatter of the files under tasks/ ("tx" is referenced but has no file)
TaskFiles ==
    [t1  |-> [code |-> <<"a">>,      timeout_minutes |-> NoNumber],
     t2  |-> [code |-> <<"B", " ">>, timeout_minutes |-> 2],
     t0  |-> [code |-> <<"a", "b">>, timeout_minutes |-> 0],
     fin |-> [code |-> NULL,         timeout_minutes |-> NoNumber]]

TaskIds == DOMAIN TaskFiles

TaskRefs == TaskIds \cup {"tx"}

RECURSIVE SeqsOfLen(_)
SeqsOfLen(n) ==
    IF n = 0 THEN {<<>>}
    ELSE {Append(s, t) : s \in SeqsOfLen(n - 1), t \in TaskRefs}

TeamSequences == UNION {SeqsOfLen(n) : n \in 0..MaxSeqLen}

\* Object.entries(teams): the order in which readdirSync lists teams/
TeamOrder == <<"team1", "team2">>

Team1StartCodes == {<<"b", "a">>, NULL}

Team2Sequences == {<<"t1", "t2", "fin">>, <<"fin", "t1">>}

\* frontmatter lines are sequences of tokens: a word, ":", "-" or one blank
ItemLine(id) == <<" ", "-", " ", id>>

\* the lines of a sequence key followed by one well-formed item per id
Written(ids) == <<<<"sequence", ":">>>> \o [k \in 1..Len(ids) |-> ItemLine(ids[k])]

\* sequence texts that are not a list of well-formed items: no sequence key,
\* a scalar value, and lists with an item that is not indented or has no
\* blank after its dash
BadSequenceTexts ==
    {<<>>,
     <<<<"sequence", ":", " ", "t1">>>>,
     <<<<"sequence", ":">>, <<"-", " ", "t1">>, ItemLine("t2"), ItemLine("fin")>>,
     <<<<"sequence", ":">>, ItemLine("t1"), <<" ", "-", "t2">>>>}

TeamFileSets ==
    {[team1 |-> [name |-> <<"Red">>, start_code |-> sc, sequence |-> s1],
      team2 |-> [name |-> NULL, start_code |-> <<"a">>, sequence |-> Written(s2)]] :
        sc \in Team1StartCodes,
        s1 \in {Written(ids) : ids \in TeamSequences} \cup BadSequenceTexts,
        s2 \in Team2Sequences}

\* hint_penalty_minutes of CONFIG.md as parseInt reads it, NoNumber when the
\* key is absent
HintPenalties == {NoNumber, 0, 3}

\* frontmatter of CONFIG.md
ConfigFiles ==
    {[admin_password |-> <<"treasure2024">>,
      default_timeout_minutes |-> 1,
      hint_penalty_minutes |-> h,
      organizers |-> 1] : h \in HintPenalties}

\* ------------------------------------------------------------------------
\* Loaders
\* ------------------------------------------------------------------------
loadTasks ==
    [id \in TaskIds |->
        [id |-> id,
         code |-> TaskFiles[id].code,
         timeout_minutes |-> TaskFiles[id].timeout_minutes]]

\* /^(\w+):\s*(.*)$/ on a line, and the value it captures
KeyMatch(line) == Len(line) >= 2 /\ line[1] \notin {" ", "-", ":"} /\ line[2] = ":"

KeyValue(line) == trimStart(SubSeq(line, 3, Len(line)))

\* /^\s+-\s+(.*)$/ on a line, and the value it captures (no item of the
\* texts above has the key: value form that starts an object)
ArrayItemMatch(line) ==
    /\ line # <<>> /\ line[1] = " "
    /\ LET rest == trimStart(line)
       IN  Len(rest) >= 2 /\ rest[1] = "-" /\ rest[2] = " "

ArrayItemValue(line) == trimStart(Tail(trimStart(line)))

\* the characters of a token, as indexing a JavaScript string yields them
Characters(tok) ==
    CASE tok = "t0" -> <<"t", "0">> [] tok = "t1" -> <<"t", "1">>
      [] tok = "t2" -> <<"t", "2">> [] tok = "tx" -> <<"t", "x">>
      [] tok = "fin" -> <<"f", "i", "n">> [] OTHER -> <<tok>>

\* the string a run of tokens spells
RECURSIVE JoinTokens(_)
JoinTokens(toks) == IF toks = <<>> THEN "" ELSE Head(toks) \o JoinTokens(Tail(toks))

RECURSIVE Concat(_)
Concat(ss) == IF ss = <<>> THEN <<>> ELSE Head(ss) \o Concat(Tail(ss))

\* the loop of parseMarkdownWithFrontmatter over the lines, from line k on:
\* val is frontmatter.sequence so far and open tells that currentArray is it
RECURSIVE ParseLines(_, _, _, _)
ParseLines(lines, k, val, open) ==
    IF k > Len(lines) THEN val
    ELSE LET line == lines[k]
         IN  IF KeyMatch(line)
             THEN IF KeyValue(line) = <<>>
                  THEN ParseLines(lines, k + 1, [kind |-> "array", value |-> <<>>], TRUE)
                  ELSE ParseLines(lines, k + 1,
                                  [kind |-> "string", value |-> KeyValue(line)], FALSE)
             ELSE IF open /\ ArrayItemMatch(line)
                  THEN ParseLines(lines, k + 1,
                                  [kind |-> "array",
                                   value |-> Append(val.value,
                                                    JoinTokens(ArrayItemValue(line)))],
                                  TRUE)
                  ELSE ParseLines(lines, k + 1, val, open)

\* frontmatter.sequence of a team file
parseMarkdownWithFrontmatter(lines) ==
    ParseLines(lines, 1, [kind |-> "undefined", value |-> <<>>], FALSE)

\* sequence holds what sequence[i] yields for i < sequence.length, and
\* sequenceIsArray tells an array from a string
loadTeams(tf) ==
    [id \in DOMAIN tf |->
        LET parsed == parseMarkdownWithFrontmatter(tf[id].sequence)
        IN  [id |-> id,
             name |-> IF tf[id].name = NULL THEN <<id>> ELSE tf[id].name,
             startCode |-> tf[id].start_code,
             sequence |-> IF parsed.kind = "string"
                          THEN Concat([k \in 1..Len(parsed.value) |->
                                          Characters(parsed.value[k])])
                          ELSE parsed.value,
             sequenceIsArray |-> parsed.kind # "string"]]

\* a key that is present is a non-empty string, which is truthy: "0" is read
\* as 0, and only an absent key takes the default
loadConfig(cf) ==
    [admin_password |-> cf.admin_password,
     default_timeout_minutes |-> cf.default_timeout_minutes,
     hint_penalty_minutes |->
         IF cf.hint_penalty_minutes = NoNumber THEN 5 ELSE cf.hint_penalty_minutes,
     organizers |-> cf.organizers]

\* ------------------------------------------------------------------------
\* State
\* ------------------------------------------------------------------------
VARIABLES
    teamFiles,      \* frontmatter of the files under teams/
    configFile,     \* frontmatter of CONFIG.md
    startDist,      \* history: the files under DIST_DIR when the run began
    pc,             \* position of generate()
    run,            \* number of the current generate() run
    exitCode,       \* exit code of the last finished run, NoNumber before
    tasks,          \* const tasks = loadTasks()
    teams,          \* const teams = loadTeams()
    config,         \* const config = loadConfig()
    distDirs,       \* directories that exist under DIST_DIR ("." is DIST_DIR)
    dist,           \* files under DIST_DIR: path -> content
    testingDoc,     \* ../TESTING.md, outside DIST_DIR: <<>> or <<content>>
    cacheBuster,    \* const cacheBuster = Date.now()
    teamIdx,        \* position of the team loop in Object.entries(teams)
    files,          \* const files = [] of the current team
    pageIdx,        \* i of the task page loop of the current team
    teamStartUrls,
    teamTaskUrls,
    prevDist,       \* history: dist at the end of the previous completed run
    location,       \* browser: path of the document shown, <<>> for none
    page,           \* browser: the document loaded, <<>> or <<document>>
    navigating,     \* browser: window.location.href assigned, <<>> or <<path>>
    input,          \* browser: value of #code-input
    errorVisible,   \* browser: #error-message is shown
    pending,        \* browser: codes of verifyAndRedirect calls awaiting the digest
    pageViewDue,    \* browser: the page_view timeout of init() is armed
    hideTimers,     \* browser: armed timeouts of showError()
    sessionStorage, \* browser: key -> number
    inflight,       \* network: requests sent by fetch and not yet settled
    now,            \* browser: Date.now()
    timeRemaining,  \* browser: let timeRemaining
    timerInterval,  \* browser: the interval of startTimer() is armed
    timedOut,       \* browser: let timedOut
    helpShown,      \* browser: #timeout-help is shown
    hintUsed,       \* browser: #get-hint-btn is disabled
    events,         \* collector: const events = []
    teamStatus,     \* collector: const teamStatus = {}
    sseClients,     \* collector: const sseClients = [] (connection ids)
    streams,        \* collector: connection id -> messages written to it
    sockets,        \* collector: connection id -> what its peer is doing
    lastHandled     \* history: the request the collector handled last

genVars == <<teamFiles, configFile, startDist, pc, run, exitCode, tasks, teams, config, distDirs, dist,
             testingDoc, cacheBuster, teamIdx, files, pageIdx, teamStartUrls,
             teamTaskUrls, prevDist>>

timerVars == <<now, timeRemaining, timerInterval, timedOut, helpShown, hintUsed>>

clientVars == <<location, page, navigating, input, errorVisible, pending,
                pageViewDue, hideTimers, sessionStorage, inflight, timerVars>>

serverVars == <<events, teamStatus, sseClients, streams, sockets, lastHandled>>

vars == <<genVars, clientVars, serverVars>>

\* ------------------------------------------------------------------------
\* HTML emitters.  A document is the values its template embeds: the
\* structured ones the runtime reads, and html, every interpolated string.
\* ------------------------------------------------------------------------
Document(kind, teamCfg, taskCfg, href, form, timer, help, version, html) ==
    [kind |-> kind, TEAM_CONFIG |-> teamCfg, TASK_CONFIG |-> taskCfg,
     href |-> href, form |-> form, timer |-> timer, help |-> help,
     GAME_VERSION |-> version, html |-> html]

Asset(name) == Document("asset", <<>>, <<>>, <<>>, FALSE, FALSE, <<>>, 0, {})

\* mutation: the final page is given a TASK_CONFIG as well
taskConfigScript_always(o) ==
    <<[correctHashSHA256 |-> o.correctHashSHA256,
       nextTaskFile |-> o.nextTaskFile,
       timeoutMinutes |-> OrNum(o.timeoutMinutes, 0),
       hintPenaltyMinutes |-> OrNum(o.hintPenaltyMinutes, 5)]>>

\* window.TASK_CONFIG of a task page: nothing on the final page
taskConfigScript(o) ==
    IF o.isFinalPage THEN <<>>
    ELSE <<[correctHashSHA256 |-> o.correctHashSHA256,
            nextTaskFile |-> o.nextTaskFile,
            timeoutMinutes |-> OrNum(o.timeoutMinutes, 0),
            hintPenaltyMinutes |-> OrNum(o.hintPenaltyMinutes, 5)]>>

generateTaskPageHtml(o) ==
    LET trackingScript == <<[teamId |-> o.teamId, teamName |-> o.teamName,
                             step |-> o.stepNumber, taskId |-> o.taskId]>>
        taskConfig == taskConfigScript(o)
        \* #timeout-help with #get-hint-btn and the amount its label announces
        hasHelp == ~o.isFinalPage /\ o.organizers > 0
        help == IF hasHelp THEN <<[announced |-> o.hintPenaltyMinutes]>> ELSE <<>>
        hasTimer == ~o.isFinalPage /\ OrNum(o.timeoutMinutes, 0) # 0
    IN  Document("task", trackingScript, taskConfig, <<>>,
                 ~o.isFinalPage, hasTimer, help, o.cacheBuster,
                 {o.teamName, <<o.teamId>>, <<o.taskId>>,
                  <<ToString(o.stepNumber)>>, <<ToString(o.totalSteps)>>,
                  <<"body", o.taskId>>, <<ToString(o.cacheBuster)>>}
                 \cup (IF taskConfig = <<>> THEN {}
                       ELSE {taskConfig[1].correctHashSHA256,
                             taskConfig[1].nextTaskFile,
                             <<ToString(taskConfig[1].timeoutMinutes)>>,
                             <<ToString(taskConfig[1].hintPenaltyMinutes)>>})
                 \cup (IF hasHelp THEN {<<ToString(o.hintPenaltyMinutes)>>} ELSE {}))

generateStartPageHtml(o) ==
    Document("start",
             <<[teamId |-> o.teamId, teamName |-> o.teamName,
                step |-> 0, taskId |-> "start"]>>,
             <<>>, o.nextTaskFile, FALSE, FALSE, <<>>, o.cacheBuster,
             {o.teamName, <<o.teamId>>, <<"welcome", o.teamId>>,
              o.nextTaskFile, <<ToString(o.cacheBuster)>>})

generateIndexHtml ==
    Document("index", <<>>, <<>>, <<>>, FALSE, FALSE, <<>>, 0, {})

generateAdminHtml(startUrls, adminPassword) ==
    Document("admin", <<>>, <<>>, <<>>, FALSE, FALSE, <<>>, 0,
             {sha256(adminPassword)}
             \cup UNION {{startUrls[k].name, <<startUrls[k].id>>, startUrls[k].url} :
                            k \in 1..Len(startUrls)})

\* the cross-reference listing: every task code and every URL, in clear
generateTestingHtml(tms, tsk, startUrls, taskUrls, adminPassword) ==
    LET taskRows == UNION {{<<id>>, tsk[id].code} :
                              id \in {t \in DOMAIN tsk : tsk[t].code # NULL}}
        flowSteps(teamId) ==
            UNION {{IF tms[teamId].sequence[k] \in DOMAIN tsk
                       /\ tsk[tms[teamId].sequence[k]].code # NULL
                    THEN tsk[tms[teamId].sequence[k]].code ELSE <<"-">>,
                    IF k <= Len(taskUrls[teamId]) THEN taskUrls[teamId][k]
                    ELSE <<"undefined">>} :
                      k \in 1..Len(tms[teamId].sequence)}
        teamSections ==
            UNION {{tms[teamId].name, <<teamId>>, tms[teamId].sequence}
                   \cup flowSteps(teamId) : teamId \in DOMAIN tms}
    IN  Document("testing", <<>>, <<>>, <<>>, FALSE, FALSE, <<>>, 0,
                 {sha256(adminPassword)} \cup taskRows \cup teamSections
                 \cup {startUrls[k].url : k \in 1..Len(startUrls)})

\* TESTING.md
generateTestingDoc(tms, tsk, startUrls) ==
    UNION {{startUrls[k].name, <<startUrls[k].id>>, startUrls[k].url} :
              k \in 1..Len(startUrls)}
    \cup UNION {{<<id>>, tsk[id].code} :
                   id \in {t \in DOMAIN tsk : tsk[t].code # NULL}}
    \cup UNION {{tms[teamId].name, <<teamId>>, tms[teamId].sequence} :
                   teamId \in DOMAIN tms}

\* ------------------------------------------------------------------------
\* Chain builder: the loop that fills files[] for one team
\* ------------------------------------------------------------------------
\* the filename of the page of position i (0-based) of a sequence
ChainFilename(tsk, sequence, i) ==
    IF i = 0 THEN StepFilename(0, tsk[sequence[1]].code)
    ELSE StepFilename(i, tsk[sequence[i]].code)

\* iteration i raises a TypeError: the previous id has no task, or md5(null)
ChainStepThrows(tsk, sequence, i) ==
    /\ sequence[i + 1] \in DOMAIN tsk
    /\ IF i = 0 THEN Throws(tsk[sequence[1]].code)
       ELSE \/ sequence[i] \notin DOMAIN tsk
            \/ Throws(tsk[sequence[i]].code)

ChainThrows(tsk, sequence) ==
    \E i \in 0..(Len(sequence) - 1) : ChainStepThrows(tsk, sequence, i)

RECURSIVE BuildFiles(_, _, _, _)
BuildFiles(tsk, sequence, i, acc) ==
    IF i >= Len(sequence) THEN acc
    ELSE IF sequence[i + 1] \notin DOMAIN tsk
         THEN BuildFiles(tsk, sequence, i + 1, acc)     \* ERROR logged, continue
         ELSE BuildFiles(tsk, sequence, i + 1,
                         Append(acc, [index |-> i,
                                      taskId |-> sequence[i + 1],
                                      filename |-> ChainFilename(tsk, sequence, i),
                                      thisCode |-> tsk[sequence[i + 1]].code]))

\* mutation: the page links to itself
NextTaskFile_self(fs, i) == fs[i].filename

\* nextTaskFile of the page files[i] (1-based), when it is not the last
NextTaskFile(fs, i) == fs[i + 1].filename

\* mutation: the code itself is embedded
CorrectHash_plain(fs, i) == fs[i].thisCode

\* correctHashSHA256 of the page files[i] (1-based), when it is not the last
CorrectHash(fs, i) == sha256(fs[i].thisCode)

PathOf(teamId, filename) == <<teamId, "/">> \o filename

WriteFile(fsys, path, content) ==
    [p \in DOMAIN fsys \cup {path} |-> IF p = path THEN content ELSE fsys[p]]

CurrentTeamId == TeamOrder[teamIdx]

\* ------------------------------------------------------------------------
\* generate()
\* ------------------------------------------------------------------------
NoTeamUrls == [id \in {} |-> <<>>]

ClientInit ==
    /\ location = <<>>
    /\ page = <<>>
    /\ navigating = <<>>
    /\ input = <<>>
    /\ errorVisible = FALSE
    /\ pending = <<>>
    /\ pageViewDue = FALSE
    /\ hideTimers = 0
    /\ sessionStorage = <<>>
    /\ inflight = <<>>
    /\ now = 1
    /\ timeRemaining = 0
    /\ timerInterval = FALSE
    /\ timedOut = FALSE
    /\ helpShown = FALSE
    /\ hintUsed = FALSE

NoTeamStatus == [id \in {} |-> <<>>]

NoStreams == [c \in {} |-> <<>>]

\* the collector after node server/server.js has started
ServerInit ==
    /\ events = <<>>
    /\ teamStatus = NoTeamStatus
    /\ sseClients = <<>>
    /\ streams = NoStreams
    /\ sockets = NoStreams
    /\ lastHandled = "none"

GenInit(teamFileSets, configFiles) ==
    /\ teamFiles \in teamFileSets
    /\ configFile \in configFiles
    /\ startDist = <<>>
    /\ pc = "start"
    /\ run = 1
    /\ exitCode = NoNumber
    /\ tasks = <<>>
    /\ teams = <<>>
    /\ config = <<>>
    /\ distDirs = {}
    /\ dist = <<>>
    /\ testingDoc = <<>>
    /\ cacheBuster = 0
    /\ teamIdx = 1
    /\ files = <<>>
    /\ pageIdx = 1
    /\ teamStartUrls = <<>>
    /\ teamTaskUrls = NoTeamUrls
    /\ prevDist = <<>>

Init == GenInit(TeamFileSets, ConfigFiles) /\ ClientInit /\ ServerInit

\* an uncaught TypeError ends the process with exit code 1
Crash ==
    /\ pc' = "error"
    /\ exitCode' = 1

\* loadConfig(), loadTasks(), loadTeams()
LoadContent ==
    /\ UNCHANGED <<clientVars, serverVars>>
    /\ pc = "start"
    /\ config' = loadConfig(configFile)
    /\ tasks' = loadTasks
    /\ teams' = loadTeams(teamFiles)
    /\ pc' = "clean"
    /\ UNCHANGED <<teamFiles, run, exitCode, distDirs, dist, testingDoc,
                   cacheBuster, teamIdx, files, pageIdx, teamStartUrls,
                   teamTaskUrls, prevDist, configFile, startDist>>

\* rmSync(DIST_DIR), the css and js directories and assets, Date.now()
CleanDist ==
    /\ UNCHANGED <<clientVars, serverVars>>
    /\ pc = "clean"
    /\ distDirs' = {".", "css", "js"}
    /\ dist' = WriteFile(WriteFile(<<>>, <<"css", "/", "style.css">>, Asset("css")),
                         <<"js", "/", "game.js">>, Asset("js"))
    /\ cacheBuster' = run
    /\ teamStartUrls' = <<>>
    /\ teamTaskUrls' = NoTeamUrls
    /\ teamIdx' = 1
    /\ pc' = IF Len(TeamOrder) = 0 THEN "index" ELSE "chain"
    /\ UNCHANGED <<teamFiles, run, exitCode, tasks, teams, config, testingDoc,
                   files, pageIdx, prevDist, configFile, startDist>>

\* one team: teamTaskUrls[teamId] = [], ensureDir(teamDir), md5(startCode),
\* and the loop over the sequence that fills files[]
BuildChain ==
    /\ UNCHANGED <<clientVars, serverVars>>
    /\ pc = "chain"
    /\ LET teamId == CurrentTeamId
           team == teams[teamId]
       IN  /\ teamTaskUrls' = [id \in DOMAIN teamTaskUrls \cup {teamId} |->
                                 IF id = teamId THEN <<>> ELSE teamTaskUrls[id]]
           /\ distDirs' = distDirs \cup {teamId}
           /\ IF Throws(team.startCode) \/ ChainThrows(tasks, team.sequence)
              THEN Crash /\ UNCHANGED files
              ELSE /\ files' = BuildFiles(tasks, team.sequence, 0, <<>>)
                   /\ pc' = "startpage"
                   /\ UNCHANGED exitCode
    /\ UNCHANGED <<teamFiles, run, tasks, teams, config, dist, testingDoc,
                   cacheBuster, teamIdx, pageIdx, teamStartUrls, prevDist, configFile, startDist>>

\* the start page of the team; files[0].filename raises when files is empty
WriteStartPage ==
    /\ UNCHANGED <<clientVars, serverVars>>
    /\ pc = "startpage"
    /\ LET teamId == CurrentTeamId
           team == teams[teamId]
           startFilename == StartFilename(team.startCode)
       IN  IF files = <<>>
           THEN Crash /\ UNCHANGED <<dist, teamStartUrls, pageIdx>>
           ELSE /\ dist' = WriteFile(dist, PathOf(teamId, startFilename),
                              generateStartPageHtml(
                                 [teamId |-> teamId, teamName |-> team.name,
                                  nextTaskFile |-> files[1].filename,
                                  cacheBuster |-> cacheBuster]))
                /\ teamStartUrls' = Append(teamStartUrls,
                              [id |-> teamId, name |-> team.name,
                               url |-> PathOf(teamId, startFilename)])
                /\ pageIdx' = 1
                /\ pc' = "taskpage"
                /\ UNCHANGED exitCode
    /\ UNCHANGED <<teamFiles, run, tasks, teams, config, distDirs, testingDoc,
                   cacheBuster, teamIdx, files, teamTaskUrls, prevDist, configFile, startDist>>

\* one iteration of the task page loop; sha256(null) raises
WriteTaskPage ==
    /\ UNCHANGED <<clientVars, serverVars>>
    /\ pc = "taskpage"
    /\ LET teamId == CurrentTeamId
           team == teams[teamId]
           file == files[pageIdx]
           isLastTask == pageIdx = Len(files)
       IN  IF ~isLastTask /\ Throws(file.thisCode)
           THEN Crash /\ UNCHANGED <<dist, teamTaskUrls, pageIdx, teamIdx>>
           ELSE /\ dist' = WriteFile(dist, PathOf(teamId, file.filename),
                              generateTaskPageHtml(
                                 [teamId |-> teamId, teamName |-> team.name,
                                  stepNumber |-> pageIdx,
                                  totalSteps |-> Len(team.sequence),
                                  taskId |-> file.taskId,
                                  correctHashSHA256 |->
                                      IF isLastTask THEN <<>> ELSE CorrectHash(files, pageIdx),
                                  nextTaskFile |->
                                      IF isLastTask THEN <<>> ELSE NextTaskFile(files, pageIdx),
                                  isFinalPage |-> isLastTask,
                                  timeoutMinutes |->
                                      OrNum(tasks[file.taskId].timeout_minutes,
                                            config.default_timeout_minutes),
                                  hintPenaltyMinutes |-> config.hint_penalty_minutes,
                                  organizers |-> config.organizers,
                                  cacheBuster |-> cacheBuster]))
                /\ teamTaskUrls' = [teamTaskUrls EXCEPT ![teamId] =
                                      Append(@, PathOf(teamId, file.filename))]
                /\ IF ~isLastTask
                   THEN pageIdx' = pageIdx + 1 /\ UNCHANGED <<teamIdx, pc>>
                   ELSE /\ pageIdx' = 1
                        /\ teamIdx' = IF teamIdx < Len(TeamOrder) THEN teamIdx + 1 ELSE teamIdx
                        /\ pc' = IF teamIdx < Len(TeamOrder) THEN "chain" ELSE "index"
                /\ UNCHANGED exitCode
    /\ UNCHANGED <<teamFiles, run, tasks, teams, config, distDirs, testingDoc,
                   cacheBuster, files, teamStartUrls, prevDist, configFile, startDist>>

WriteIndex ==
    /\ UNCHANGED <<clientVars, serverVars>>
    /\ pc = "index"
    /\ dist' = WriteFile(dist, <<"index.html">>, generateIndexHtml)
    /\ pc' = "admin"
    /\ UNCHANGED <<teamFiles, run, exitCode, tasks, teams, config, distDirs,
                   testingDoc, cacheBuster, teamIdx, files, pageIdx,
                   teamStartUrls, teamTaskUrls, prevDist, configFile, startDist>>

WriteAdmin ==
    /\ UNCHANGED <<clientVars, serverVars>>
    /\ pc = "admin"
    /\ dist' = WriteFile(dist, <<"admin.html">>,
                         generateAdminHtml(teamStartUrls, config.admin_password))
    /\ pc' = "testing"
    /\ UNCHANGED <<teamFiles, run, exitCode, tasks, teams, config, distDirs,
                   testingDoc, cacheBuster, teamIdx, files, pageIdx,
                   teamStartUrls, teamTaskUrls, prevDist, configFile, startDist>>

\* testing.html under DIST_DIR, TESTING.md beside it, and the normal exit
WriteTesting ==
    /\ UNCHANGED <<clientVars, serverVars>>
    /\ pc = "testing"
    /\ IF \E teamId \in DOMAIN teams : ~teams[teamId].sequenceIsArray
       THEN Crash /\ UNCHANGED <<dist, testingDoc>>    \* team.sequence.join
       ELSE /\ dist' = WriteFile(dist, <<"testing.html">>,
                            generateTestingHtml(teams, tasks, teamStartUrls,
                                                teamTaskUrls, config.admin_password))
            /\ testingDoc' = <<generateTestingDoc(teams, tasks, teamStartUrls)>>
            /\ pc' = "done"
            /\ exitCode' = 0
    /\ UNCHANGED <<teamFiles, run, tasks, teams, config, distDirs, cacheBuster,
                   teamIdx, files, pageIdx, teamStartUrls, teamTaskUrls, prevDist, configFile, startDist>>

\* the operator runs node generator/generate.js again over the same content
Regenerate ==
    /\ UNCHANGED <<clientVars, serverVars>>
    /\ pc \in {"done", "error"}
    /\ run < MaxRuns
    /\ run' = run + 1
    /\ prevDist' = IF pc = "done" THEN dist ELSE prevDist
    /\ pc' = "start"
    /\ tasks' = <<>>
    /\ teams' = <<>>
    /\ config' = <<>>
    /\ files' = <<>>
    /\ teamIdx' = 1
    /\ pageIdx' = 1
    /\ teamStartUrls' = <<>>
    /\ teamTaskUrls' = NoTeamUrls
    /\ startDist' = dist
    /\ UNCHANGED <<teamFiles, configFile, exitCode, distDirs, dist, testingDoc,
                   cacheBuster>>

Next ==
    \/ LoadContent
    \/ CleanDist
    \/ BuildChain
    \/ WriteStartPage
    \/ WriteTaskPage
    \/ WriteIndex
    \/ WriteAdmin
    \/ WriteTesting
    \/ Regenerate

Spec == Init /\ [][Next]_vars

TypeOK ==
    /\ pc \in {"start", "clean", "chain", "startpage", "taskpage", "index",
               "admin", "testing", "done", "error"}
    /\ run \in 1..MaxRuns
    /\ exitCode \in {NoNumber, 0, 1}

\* ------------------------------------------------------------------------
\* Client runtime (dist/js/game.js), one browser tab
\* ------------------------------------------------------------------------
\* what the player may type into #code-input
TypedStrings == {<<" ">>, <<"a">>, <<" ", "A">>, <<"b">>, <<"b", "a">>}

\* the content served in the behaviours with a player
PlayTeamFileSets ==
    {[team1 |-> [name |-> <<"Red">>, start_code |-> <<"b", "a">>, sequence |-> s1],
      team2 |-> [name |-> NULL, start_code |-> <<"a">>,
                 sequence |-> Written(<<"t1", "fin">>)]] :
        s1 \in {Written(<<"t2", "t1", "fin">>), Written(<<"t1", "t1", "t2">>)}}

PlayConfigFiles == {cf \in ConfigFiles : cf.hint_penalty_minutes = 3}

Doc == page[1]

\* 'treasureHuntPenalty_' + GAME_VERSION
PenaltyKey(version) == <<"treasureHuntPenalty_", ToString(version)>>

PENALTY_STORAGE_KEY == PenaltyKey(Doc.GAME_VERSION)

\* mutation: writing a key drops the other keys
setItem_only(store, key, value) == [k \in {key} |-> value]

\* sessionStorage.setItem(key, value)
setItem(store, key, value) ==
    [k \in DOMAIN store \cup {key} |-> IF k = key THEN value ELSE store[k]]

\* stored ? parseInt(stored, 10) : 0 under the penalty key of a build
PenaltyIn(store, version) ==
    IF PenaltyKey(version) \in DOMAIN store THEN store[PenaltyKey(version)] ELSE 0

getPenalty == PenaltyIn(sessionStorage, Doc.GAME_VERSION)

\* TIMER_STORAGE_PREFIX + TEAM_CONFIG.teamId + '_' + TEAM_CONFIG.step
getTimerKey(doc) ==
    <<"treasureHuntTimer_", ToString(doc.GAME_VERSION), "_",
      doc.TEAM_CONFIG[1].teamId, "_", ToString(doc.TEAM_CONFIG[1].step)>>

\* stored ? parseInt(stored, 10) : null, with 0 for null (both are falsy)
getStartTime(store, doc) ==
    IF getTimerKey(doc) \in DOMAIN store THEN store[getTimerKey(doc)] ELSE 0

\* mutation: every page load writes the start time
setStartTime_always(store, doc, clock) == setItem(store, getTimerKey(doc), clock)

\* the start time is written only when none is stored
setStartTime(store, doc, clock) ==
    IF getStartTime(store, doc) = 0 THEN setItem(store, getTimerKey(doc), clock)
    ELSE store

\* window.TASK_CONFIG && TASK_CONFIG.timeoutMinutes > 0
HasCountdown(doc) == doc.TASK_CONFIG # <<>> /\ doc.TASK_CONFIG[1].timeoutMinutes > 0

\* Math.max(0, Math.floor((timeoutMs - elapsed) / 1000))
Remaining(doc, startTime, clock) ==
    LET left == doc.TASK_CONFIG[1].timeoutMinutes * MinuteLen - (clock - startTime)
    IN  IF left > 0 THEN left ELSE 0

\* the body of the request trackEvent(type, data) posts from a document
EventOf(doc, penalty, type, code, success) ==
    [type |-> type,
     teamId |-> doc.TEAM_CONFIG[1].teamId,
     teamName |-> doc.TEAM_CONFIG[1].teamName,
     step |-> doc.TEAM_CONFIG[1].step,
     taskId |-> doc.TEAM_CONFIG[1].taskId,
     penaltyMinutes |-> penalty,
     penaltyAdded |-> NoNumber,
     code |-> code,
     success |-> success]

TrackedEvent(type, code, success) == EventOf(Doc, getPenalty, type, code, success)

\* trackEvent: nothing without TEAM_CONFIG, else one fire-and-forget fetch
trackEvent(net, type, code, success) ==
    IF Doc.TEAM_CONFIG = <<>> THEN net
    ELSE Append(net, TrackedEvent(type, code, success))

\* mutation: the client digests the code as typed
clientSha256_raw(message) == <<"sha256", ToString(Bytes(message))>>

\* async sha256(message) of the runtime: SHA-256 of toUpperCase().trim()
clientSha256(message) == <<"sha256", ToString(Bytes(trim(toUpperCase(message))))>>

\* const success = hash === TASK_CONFIG.correctHashSHA256
Success(doc, code) == clientSha256(code) = doc.TASK_CONFIG[1].correctHashSHA256

\* nextTaskFile.includes('grand_finale') || nextTaskFile.includes('finale')
IsFinaleFile(filename) ==
    Includes(filename, <<"grand_finale">>) \/ Includes(filename, <<"finale">>)

\* a relative href resolved against the directory of the current document
Resolve(filename) == SubSeq(location, 1, 2) \o filename

\* a document is fetched and init() runs in a fresh script context; the
\* requests of the document left behind end with it (completed or aborted).
\* init() runs startTimer() and setupHintButton() on a page with a countdown:
\* the start time is stored if none is, the remaining time is computed from
\* the stored one, and a countdown found expired goes to handleTimeout().
LoadDocument(path) ==
    LET found == path \in DOMAIN dist
        doc == dist[path]
        timed == found /\ HasCountdown(doc)
        store == IF timed THEN setStartTime(sessionStorage, doc, now)
                 ELSE sessionStorage
        remaining == IF timed THEN Remaining(doc, getStartTime(store, doc), now)
                     ELSE 0
        expired == timed /\ remaining <= 0
    IN  /\ location' = path
        /\ page' = IF found THEN <<doc>> ELSE <<>>
        /\ navigating' = <<>>
        /\ input' = <<>>
        /\ errorVisible' = FALSE
        /\ pending' = <<>>
        /\ hideTimers' = 0
        /\ pageViewDue' = found
        /\ sessionStorage' = store
        /\ timeRemaining' = remaining
        /\ timerInterval' = (timed /\ ~expired)
        /\ timedOut' = expired
        /\ helpShown' = (expired /\ doc.help # <<>>)
        /\ hintUsed' = FALSE
        /\ inflight' = IF expired
                       THEN <<EventOf(doc, PenaltyIn(store, doc.GAME_VERSION),
                                      "timeout", NULL, "undefined")>>
                       ELSE <<>>
        /\ UNCHANGED now

Published == pc = "done"

\* the player opens (or reloads) the URL of a page of the published tree
OpenPage(path) ==
    /\ Published
    /\ path \in DOMAIN dist
    /\ dist[path].kind \in {"start", "task"}
    /\ LoadDocument(path)
    /\ UNCHANGED <<genVars, serverVars>>

\* the URLs a player has at hand: the start URLs handed out, and the address
\* bar (a reload)
Entrances == {p \in DOMAIN dist : dist[p].kind = "start"} \cup {location}

\* the Start Game link: onclick trackStart(), then the link is followed
ClickStart ==
    /\ Published
    /\ page # <<>> /\ Doc.kind = "start"
    /\ navigating = <<>>
    /\ Len(inflight) < MaxInflight
    /\ inflight' = trackEvent(inflight, "game_start", NULL, "undefined")
    /\ navigating' = <<Resolve(Doc.href)>>
    /\ UNCHANGED <<genVars, serverVars, location, page, input, errorVisible, pending,
                   pageViewDue, hideTimers, sessionStorage, timerVars>>

\* the submit handler of #code-form: verifyAndRedirect(code) up to its await
SubmitForm(code) ==
    /\ Published
    /\ page # <<>> /\ Doc.form
    /\ IF trim(code) = <<>>
       THEN \* showError()
            /\ hideTimers < MaxHideTimers
            /\ errorVisible' = TRUE
            /\ input' = <<>>
            /\ hideTimers' = hideTimers + 1
            /\ UNCHANGED pending
       ELSE /\ Len(pending) < MaxPending
            /\ input' = code
            /\ pending' = Append(pending, code)
            /\ UNCHANGED <<errorVisible, hideTimers>>
    /\ UNCHANGED <<genVars, serverVars, location, page, navigating, pageViewDue,
                   sessionStorage, inflight, timerVars>>

Remove(seq, k) == SubSeq(seq, 1, k - 1) \o SubSeq(seq, k + 1, Len(seq))

\* mutation: the interval stays armed
clearInterval_leak(armed) == armed

\* clearInterval(timerInterval): the interval is no longer armed
clearInterval(armed) == FALSE

\* the digest of the k-th awaiting call arrives: the rest of verifyAndRedirect
DigestDone(k) ==
    /\ Published
    /\ page # <<>>
    /\ k \in 1..Len(pending)
    /\ LET code == pending[k]
           success == Success(Doc, code)
           attempt == trackEvent(inflight, "code_attempt", Normalize(code),
                                 IF success THEN "true" ELSE "false")
       IN  /\ pending' = Remove(pending, k)
           /\ IF success
              THEN /\ Len(inflight) + 1 + (IF IsFinaleFile(Doc.TASK_CONFIG[1].nextTaskFile)
                                            THEN 1 ELSE 0) <= MaxInflight
                   /\ inflight' =
                         IF IsFinaleFile(Doc.TASK_CONFIG[1].nextTaskFile)
                         THEN trackEvent(attempt, "game_complete", NULL, "undefined")
                         ELSE attempt
                   /\ navigating' = <<Resolve(Doc.TASK_CONFIG[1].nextTaskFile)>>
                   /\ timerInterval' = clearInterval(timerInterval)
                   /\ UNCHANGED <<errorVisible, input, hideTimers>>
              ELSE \* showError()
                   /\ Len(inflight) < MaxInflight
                   /\ hideTimers < MaxHideTimers
                   /\ inflight' = attempt
                   /\ errorVisible' = TRUE
                   /\ input' = <<>>
                   /\ hideTimers' = hideTimers + 1
                   /\ UNCHANGED <<navigating, timerInterval>>
    /\ UNCHANGED <<genVars, serverVars, location, page, pageViewDue, sessionStorage,
                   now, timeRemaining, timedOut, helpShown, hintUsed>>

\* the browser follows the assigned window.location.href
FollowNavigation ==
    /\ Published
    /\ navigating # <<>>
    /\ LoadDocument(navigating[1])
    /\ UNCHANGED <<genVars, serverVars>>

\* setTimeout(() => trackEvent('page_view'), 1000) of init()
PageViewTimeout ==
    /\ pageViewDue
    /\ Len(inflight) < MaxInflight
    /\ inflight' = trackEvent(inflight, "page_view", NULL, "undefined")
    /\ pageViewDue' = FALSE
    /\ UNCHANGED <<genVars, serverVars, location, page, navigating, input, errorVisible,
                   pending, hideTimers, sessionStorage, timerVars>>

\* mutation: the timeout of showError() leaves the message shown
HideError_keep ==
    /\ hideTimers > 0
    /\ errorVisible' = errorVisible
    /\ hideTimers' = hideTimers - 1
    /\ UNCHANGED <<genVars, serverVars, location, page, navigating, input, pending,
                   pageViewDue, sessionStorage, inflight, timerVars>>

\* the 2000 ms timeout of showError() hides the message
HideError ==
    /\ hideTimers > 0
    /\ errorVisible' = FALSE
    /\ hideTimers' = hideTimers - 1
    /\ UNCHANGED <<genVars, serverVars, location, page, navigating, input, pending,
                   pageViewDue, sessionStorage, inflight, timerVars>>

\* mutation: a failed request shows the error message
FetchSettles_alert ==
    /\ inflight # <<>>
    /\ inflight' = Tail(inflight)
    /\ errorVisible' = TRUE
    /\ UNCHANGED <<genVars, serverVars, location, page, navigating, input,
                   pending, pageViewDue, hideTimers, sessionStorage, timerVars>>

\* the promise of a request settles, fulfilled with the collector's answer
\* or rejected (no collector, no network); no .then handler exists and
\* .catch(() => {}) swallows the rejection, so neither outcome runs any code
FetchSettles ==
    /\ inflight # <<>>
    /\ inflight' = Tail(inflight)
    /\ UNCHANGED <<genVars, serverVars, location, page, navigating, input, errorVisible,
                   pending, pageViewDue, hideTimers, sessionStorage, timerVars>>

PlayInit == GenInit(PlayTeamFileSets, PlayConfigFiles) /\ ClientInit /\ ServerInit

PlayNext ==
    \/ LoadContent
    \/ CleanDist
    \/ BuildChain
    \/ WriteStartPage
    \/ WriteTaskPage
    \/ WriteIndex
    \/ WriteAdmin
    \/ WriteTesting
    \/ \E path \in Entrances : OpenPage(path)
    \/ ClickStart
    \/ \E code \in TypedStrings : pending = <<>> /\ SubmitForm(code)
    \/ \E k \in 1..MaxPending : DigestDone(k)
    \/ FollowNavigation
    \/ PageViewTimeout
    \/ HideError
    \/ FetchSettles

\* a player who submits one code at a time, over any generated chain
PlaySpec == PlayInit /\ [][PlayNext]_vars

\* play in which every armed timeout of showError() fires
PlayLiveSpec == PlaySpec /\ WF_vars(HideError)

\* ------------------------------------------------------------------------
\* Client runtime: countdown and penalty over a browser session
\* ------------------------------------------------------------------------
\* handleTimeout(): once per script context; shows #timeout-help if the page
\* has it and posts the timeout event
\* mutation: the timeout is recorded and notified, the help stays hidden
handleTimeout_hidden ==
    IF timedOut THEN UNCHANGED <<timedOut, helpShown, inflight>>
    ELSE /\ Len(inflight) < MaxInflight
         /\ timedOut' = TRUE
         /\ helpShown' = helpShown
         /\ inflight' = trackEvent(inflight, "timeout", NULL, "undefined")

handleTimeout ==
    IF timedOut THEN UNCHANGED <<timedOut, helpShown, inflight>>
    ELSE /\ Len(inflight) < MaxInflight
         /\ timedOut' = TRUE
         /\ helpShown' = (helpShown \/ Doc.help # <<>>)
         /\ inflight' = trackEvent(inflight, "timeout", NULL, "undefined")

\* one period passes; the callback of setInterval runs if the interval is
\* armed: timeRemaining--, and at zero clearInterval and handleTimeout()
Tick ==
    /\ Published
    /\ now < MaxClock
    /\ now' = now + 1
    /\ IF page # <<>> /\ timerInterval
       THEN /\ timeRemaining' = timeRemaining - 1
            /\ IF timeRemaining - 1 <= 0
               THEN timerInterval' = FALSE /\ handleTimeout
               ELSE UNCHANGED <<timerInterval, timedOut, helpShown, inflight>>
       ELSE UNCHANGED <<timeRemaining, timerInterval, timedOut, helpShown, inflight>>
    /\ UNCHANGED <<genVars, serverVars, location, page, navigating, input,
                   errorVisible, pending, pageViewDue, hideTimers, sessionStorage,
                   hintUsed>>

\* a click on #get-hint-btn, which is inside #timeout-help and takes clicks
\* only while shown and not disabled; the listener exists on a page with a
\* countdown
ClickHint ==
    /\ Published
    /\ page # <<>>
    /\ HasCountdown(Doc)
    /\ Doc.help # <<>>
    /\ helpShown
    /\ ~hintUsed
    /\ LET penalty == OrNum(Doc.TASK_CONFIG[1].hintPenaltyMinutes, 5)
           newPenalty == getPenalty + penalty
       IN  /\ newPenalty <= MaxPenalty
           /\ Len(inflight) < MaxInflight
           /\ sessionStorage' = setItem(sessionStorage, PENALTY_STORAGE_KEY, newPenalty)
           /\ inflight' = Append(inflight,
                  [EventOf(Doc, newPenalty, "hint_requested", NULL, "undefined")
                      EXCEPT !.penaltyAdded = penalty])
    /\ hintUsed' = TRUE
    /\ UNCHANGED <<genVars, serverVars, location, page, navigating, input,
                   errorVisible, pending, pageViewDue, hideTimers, now,
                   timeRemaining, timerInterval, timedOut, helpShown>>

\* the content served in the behaviours of a session: one page with a
\* countdown per team, of two and of one minute
SessionTeamFileSets ==
    {[team1 |-> [name |-> <<"Red">>, start_code |-> <<"b", "a">>,
                 sequence |-> Written(<<"t2", "fin">>)],
      team2 |-> [name |-> NULL, start_code |-> <<"a">>,
                 sequence |-> Written(<<"t1", "fin">>)]]}

SessionConfigFiles == {cf \in ConfigFiles : cf.hint_penalty_minutes # NoNumber}

SessionInit ==
    GenInit(SessionTeamFileSets, SessionConfigFiles) /\ ClientInit /\ ServerInit

SessionNext ==
    \/ LoadContent
    \/ CleanDist
    \/ BuildChain
    \/ WriteStartPage
    \/ WriteTaskPage
    \/ WriteIndex
    \/ WriteAdmin
    \/ WriteTesting
    \/ \E path \in DOMAIN dist : OpenPage(path)
    \/ ClickStart
    \/ FollowNavigation
    \/ Tick
    \/ ClickHint
    \/ PageViewTimeout
    \/ FetchSettles

SessionSpec == SessionInit /\ [][SessionNext]_vars

\* a session in which time passes and requests settle: the clock of the
\* browser keeps running whatever the page does, and every fetch ends
SessionLiveSpec ==
    SessionSpec /\ SF_vars(Tick) /\ WF_vars(FetchSettles)

\* ------------------------------------------------------------------------
\* Collector (server/server.js).  Timestamps and GPS locations are left out.
\* ------------------------------------------------------------------------
\* a request body as a client other than the modelled tab may post it
Notification(type, teamId, step, success) ==
    [type |-> type, teamId |-> teamId,
     teamName |-> IF teamId = "team1" THEN <<"Red">> ELSE NULL,
     step |-> step, taskId |-> "t1", penaltyMinutes |-> 0,
     penaltyAdded |-> NoNumber, code |-> NULL, success |-> success]

\* the bodies posted to /api/event: any type, steps in any order, a missing
\* step, a missing team id ("")
Notifications ==
    {Notification("page_view", "team1", st, "undefined") : st \in 0..MaxStep}
    \cup {Notification("code_attempt", "team1", st, "true") : st \in 0..MaxStep}
    \cup {Notification("code_attempt", "team1", MaxStep, "false"),
          Notification("game_complete", "team1", MaxStep, "undefined"),
          Notification("page_view", "team1", NoNumber, "undefined"),
          Notification("page_view", "team2", MaxStep, "undefined"),
          Notification("code_attempt", "team2", 0, "true"),
          Notification("page_view", "", MaxStep, "undefined")}

Range(seq) == {seq[i] : i \in 1..Len(seq)}

\* res.write(message) on a connection: the message is queued for the peer
\* whether or not the peer is reading; on a connection whose socket has
\* closed the write is dropped and returns false
Write(c, message) ==
    IF sockets[c] = "closed" THEN streams[c] ELSE Append(streams[c], message)

\* mutation: the broadcast waits until every subscriber takes the message
broadcast_awaiting(message) ==
    /\ \A c \in Range(sseClients) : sockets[c] = "reading"
    /\ streams' = [c \in DOMAIN streams |->
                     IF c \in Range(sseClients) THEN Write(c, message)
                     ELSE streams[c]]

\* broadcast(data): one write to every connection in sseClients
broadcast(message) ==
    streams' = [c \in DOMAIN streams |->
                  IF c \in Range(sseClients) THEN Write(c, message)
                  ELSE streams[c]]

\* room on every connection for one more message
StreamsHaveRoom == \A c \in DOMAIN streams : Len(streams[c]) < MaxStream

\* the record teamStatus[teamId] is created with
NewTeamStatus(body) ==
    [teamId |-> body.teamId,
     teamName |-> IF body.teamName = NULL THEN <<body.teamId>> ELSE body.teamName,
     currentStep |-> 0, currentTask |-> "", attempts |-> <<>>, completed |-> FALSE]

\* mutation: a page_view always sets the step
StepAfterPageView_last(current, step) == OrNum(step, current)

\* page_view: the step is taken only if it is not lower than the stored one
StepAfterPageView(current, step) ==
    IF OrNum(step, 0) >= OrNum(current, 0) THEN OrNum(step, current) ELSE current

\* mutation: every successful code_attempt advances the step by one
StepAfterSuccess_count(current, step) == OrNum(current, 0) + 1

\* a successful code_attempt: step + 1 is taken only if it is higher
StepAfterSuccess(current, step) ==
    IF OrNum(step, 0) + 1 > OrNum(current, 0) THEN OrNum(step, 0) + 1 ELSE current

\* the update of the team's record for one event
UpdatedStatus(team, body) ==
    LET viewed ==
            IF body.type = "page_view"
            THEN [team EXCEPT
                    !.currentStep = StepAfterPageView(team.currentStep, body.step),
                    !.currentTask = IF OrNum(body.step, 0) >= OrNum(team.currentStep, 0)
                                    THEN body.taskId ELSE team.currentTask]
            ELSE team
        attempted ==
            IF body.type = "code_attempt"
            THEN [viewed EXCEPT
                    !.attempts = Append(@, [code |-> body.code,
                                            success |-> body.success,
                                            step |-> body.step]),
                    !.currentStep = IF body.success = "true"
                                    THEN StepAfterSuccess(@, body.step) ELSE @]
            ELSE viewed
    IN  IF body.type = "game_complete"
        THEN [attempted EXCEPT !.completed = TRUE]
        ELSE attempted

\* teamStatus after the event of a body has been applied to it
Applied(status, body) ==
    IF body.teamId = "" THEN status
    ELSE [id \in DOMAIN status \cup {body.teamId} |->
            IF id = body.teamId
            THEN UpdatedStatus(IF id \in DOMAIN status
                               THEN status[id]
                               ELSE NewTeamStatus(body), body)
            ELSE status[id]]

\* the handler of POST /api/event
Ingest(body) ==
    /\ Len(events) < MaxEvents
    /\ LET event == [id |-> Len(events) + 1, body |-> body]
           status == Applied(teamStatus, body)
       IN  /\ events' = Append(events, event)
           /\ teamStatus' = status
           /\ broadcast([type |-> "new_event", events |-> <<event>>,
                         teamStatus |-> status])
    /\ lastHandled' = "event"      \* res.json({ ok: true })
    /\ UNCHANGED <<sseClients, sockets>>

\* POST /api/event from a client other than the modelled tab
PostEvent(body) ==
    /\ Ingest(body)
    /\ UNCHANGED <<genVars, clientVars>>

\* mutation: the first message does not carry the log
GetStream_blank(c) ==
    /\ c \in 1..MaxSubscribers
    /\ c \notin DOMAIN streams
    /\ \A d \in 1..(c - 1) : d \in DOMAIN streams
    /\ streams' = [d \in DOMAIN streams \cup {c} |->
                     IF d = c THEN <<[type |-> "init", events |-> <<>>,
                                      teamStatus |-> teamStatus]>>
                     ELSE streams[d]]
    /\ sockets' = [d \in DOMAIN sockets \cup {c} |->
                     IF d = c THEN "reading" ELSE sockets[d]]
    /\ sseClients' = Append(sseClients, c)
    /\ lastHandled' = "stream"
    /\ UNCHANGED <<genVars, clientVars, events, teamStatus>>

\* GET /api/events/stream: the current state is written, then the connection
\* is added to sseClients
GetStream(c) ==
    /\ c \in 1..MaxSubscribers
    /\ c \notin DOMAIN streams
    /\ \A d \in 1..(c - 1) : d \in DOMAIN streams
    /\ streams' = [d \in DOMAIN streams \cup {c} |->
                     IF d = c THEN <<[type |-> "init", events |-> events,
                                      teamStatus |-> teamStatus]>>
                     ELSE streams[d]]
    /\ sockets' = [d \in DOMAIN sockets \cup {c} |->
                     IF d = c THEN "reading" ELSE sockets[d]]
    /\ sseClients' = Append(sseClients, c)
    /\ lastHandled' = "stream"
    /\ UNCHANGED <<genVars, clientVars, events, teamStatus>>

\* the peer of a connection stops reading, or reads again: the collector is
\* not told
Stall(c) ==
    /\ c \in DOMAIN sockets
    /\ sockets[c] \in {"reading", "stalled"}
    /\ sockets' = [sockets EXCEPT ![c] = IF @ = "reading" THEN "stalled" ELSE "reading"]
    /\ UNCHANGED <<genVars, clientVars, events, teamStatus, sseClients, streams,
                   lastHandled>>

\* the peer of a connection goes away: the socket closes, and the 'close'
\* handler has not run yet
Disconnect(c) ==
    /\ c \in DOMAIN sockets
    /\ sockets[c] # "closed"
    /\ sockets' = [sockets EXCEPT ![c] = "closed"]
    /\ UNCHANGED <<genVars, clientVars, events, teamStatus, sseClients, streams,
                   lastHandled>>

\* req.on('close'): the connection is spliced out of sseClients
Close(c) ==
    /\ c \in Range(sseClients)
    /\ sockets[c] = "closed"
    /\ sseClients' = SelectSeq(sseClients, LAMBDA d : d # c)
    /\ streams' = [d \in DOMAIN streams \ {c} |-> streams[d]]
    /\ sockets' = [d \in DOMAIN sockets \ {c} |-> sockets[d]]
    /\ lastHandled' = "close"
    /\ UNCHANGED <<genVars, clientVars, events, teamStatus>>

\* mutation: reset empties the log and keeps the team records
GetReset_keep ==
    /\ StreamsHaveRoom
    /\ events' = <<>>
    /\ broadcast([type |-> "reset", events |-> <<>>, teamStatus |-> NoTeamStatus])
    /\ lastHandled' = "reset"
    /\ UNCHANGED <<genVars, clientVars, sseClients, sockets, teamStatus>>

\* GET /api/reset
GetReset ==
    /\ StreamsHaveRoom
    /\ events' = <<>>
    /\ teamStatus' = NoTeamStatus
    /\ broadcast([type |-> "reset", events |-> <<>>, teamStatus |-> NoTeamStatus])
    /\ lastHandled' = "reset"
    /\ UNCHANGED <<genVars, clientVars, sseClients, sockets>>

\* the collector runs beside a tree that is not being played
CollectorInit ==
    GenInit(SessionTeamFileSets, PlayConfigFiles) /\ ClientInit /\ ServerInit

\* the collector without a dashboard: notifications of any kind, and resets
CollectorNext ==
    \/ \E body \in Notifications : PostEvent(body)
    \/ GetReset

CollectorSpec == CollectorInit /\ [][CollectorNext]_vars

\* the bodies posted while dashboards are connected
StreamNotifications ==
    {Notification("page_view", "team1", 1, "undefined"),
     Notification("code_attempt", "team1", 1, "true"),
     Notification("page_view", "team2", 0, "undefined")}

\* the collector with dashboards that connect, stop reading, read again, go
\* away and are removed, between notifications
SubscriberNext ==
    \/ \E body \in StreamNotifications : PostEvent(body)
    \/ \E c \in 1..MaxSubscribers : GetStream(c)
    \/ \E c \in 1..MaxSubscribers : Stall(c)
    \/ \E c \in 1..MaxSubscribers : Disconnect(c)
    \/ \E c \in 1..MaxSubscribers : Close(c)

SubscriberSpec == CollectorInit /\ [][SubscriberNext]_vars

\* the collector with dashboards that connect, go away and are removed,
\* between notifications and resets, while every connection has room
ResetNext ==
    \/ \E body \in StreamNotifications : StreamsHaveRoom /\ PostEvent(body)
    \/ \E c \in 1..MaxSubscribers : GetStream(c)
    \/ \E c \in 1..MaxSubscribers : Disconnect(c)
    \/ \E c \in 1..MaxSubscribers : Close(c)
    \/ GetReset

ResetSpec == CollectorInit /\ [][ResetNext]_vars

\* ------------------------------------------------------------------------
\* Vocabulary of the properties
\* ------------------------------------------------------------------------
TeamIds == DOMAIN teamFiles

\* the sequence of a team as loadTeams() loads it
SequenceOf(T) == loadTeams(teamFiles)[T].sequence

\* every task id of the team's sequence has a task file
AllResolve(T) == \A i \in 1..Len(SequenceOf(T)) : SequenceOf(T)[i] \in TaskIds

\* the code of the task at position i (0-based) of the team's sequence
CodeAt(T, i) == TaskFiles[SequenceOf(T)[i + 1]].code

FileName(path) == SubSeq(path, 3, Len(path))

TaskPages(T) ==
    {p \in DOMAIN dist : dist[p].kind = "task" /\ dist[p].TEAM_CONFIG[1].teamId = T}

\* the written task pages of position i (0-based) of the team's chain
PagesAt(T, i) == {p \in TaskPages(T) : dist[p].TEAM_CONFIG[1].step = i + 1}

StartPages(T) ==
    {p \in DOMAIN dist : dist[p].kind = "start" /\ dist[p].TEAM_CONFIG[1].teamId = T}

PlayerPages == {p \in DOMAIN dist : dist[p].kind \in {"start", "task"}}

\* the document embeds a value in which str occurs
Embeds(doc, str) == \E v \in doc.html : Includes(v, str)

\* the codes of the content, as written and as players may type them
TaskCodes == {TaskFiles[t].code : t \in TaskIds} \ {NULL}

StartCodes == {teamFiles[T].start_code : T \in TeamIds} \ {NULL}

Plaintexts(codes) == codes \cup {Normalize(c) : c \in codes}

\* v and c are case / surrounding-whitespace variants of one another
SameLetter(x, y) == x = y \/ {x, y} \in {{"a", "A"}, {"b", "B"}}

IsCore(s) == s = <<>> \/ (s[1] # " " /\ s[Len(s)] # " ")

IsPaddedRecase(v, core) ==
    \E l \in 0..Len(v) :
        /\ l + Len(core) <= Len(v)
        /\ \A i \in 1..Len(v) :
              IF i <= l \/ i > l + Len(core) THEN v[i] = " "
              ELSE SameLetter(v[i], core[i - l])

IsVariant(v, c) ==
    \E core \in AllStrings :
        IsCore(core) /\ IsPaddedRecase(v, core) /\ IsPaddedRecase(c, core)

\* ------------------------------------------------------------------------
\* C1  Chain integrity
\* ------------------------------------------------------------------------
\* C1: after generate(), for every team whose sequence tasks all resolve,
\* each position has exactly one written page, the nextTaskFile embedded in
\* the page of every position but the last is the filename under which the
\* page of the next position is written, and the link of the start page is
\* the filename of the page of position 0.
C1_ChainIntegrity ==
    pc = "done" =>
        \A T \in TeamIds :
            AllResolve(T) =>
                LET n == Len(SequenceOf(T))
                IN  /\ \A i \in 0..(n - 1) : Cardinality(PagesAt(T, i)) = 1
                    /\ \A i \in 0..(n - 2) :
                          \A p \in PagesAt(T, i), q \in PagesAt(T, i + 1) :
                              /\ dist[p].TASK_CONFIG # <<>>
                              /\ dist[p].TASK_CONFIG[1].nextTaskFile = FileName(q)
                    /\ Cardinality(StartPages(T)) = 1
                    /\ \A s \in StartPages(T), q \in PagesAt(T, 0) :
                          dist[s].href = FileName(q)

C1_Witness ==
    /\ pc = "done"
    /\ AllResolve("team1")
    /\ Len(SequenceOf("team1")) = 3
    /\ \E p \in PagesAt("team1", 1), q \in PagesAt("team1", 2) :
          dist[p].TASK_CONFIG[1].nextTaskFile = FileName(q)

\* ------------------------------------------------------------------------
\* C2  Access filename derivation
\* ------------------------------------------------------------------------
\* C2: after generate(), for every team whose sequence tasks all resolve,
\* the digest in the filename of the page of position 0 is md5 of the team's
\* startCode, and the digest in the filename of the page of every position
\* i > 0 is md5 of the code of the task at position i-1.
C2_AccessFilename ==
    pc = "done" =>
        \A T \in TeamIds :
            AllResolve(T) =>
                /\ \A p \in PagesAt(T, 0) :
                      DigestOf(FileName(p)) = md5(teamFiles[T].start_code)
                /\ \A i \in 1..(Len(SequenceOf(T)) - 1) :
                      \A p \in PagesAt(T, i) :
                          DigestOf(FileName(p)) = md5(CodeAt(T, i - 1))

\* ------------------------------------------------------------------------
\* C3  The page source does not name the next page
\* ------------------------------------------------------------------------
\* C3: no written task page that has a successor embeds, in any value of
\* its HTML, the filename under which the next page of the chain is written.
C3_NextPageNotInSource ==
    \A T \in TeamIds :
        \A p \in TaskPages(T) :
            \A q \in PagesAt(T, dist[p].TEAM_CONFIG[1].step) :
                ~Embeds(dist[p], FileName(q))

\* ------------------------------------------------------------------------
\* C4  The next page is not determined by the visited URLs
\* ------------------------------------------------------------------------
\* the codes that name the pages of the chain are pairwise distinct
DistinctChainCodes(T) ==
    LET n == Len(SequenceOf(T))
        code(k) == IF k = 0 THEN teamFiles[T].start_code ELSE CodeAt(T, k - 1)
    IN  \A j, k \in 0..(n - 1) : j # k => Normalize(code(j)) # Normalize(code(k))

\* C4: after generate(), for every team whose tasks all resolve and whose
\* chain codes are pairwise distinct, and every position i with a successor,
\* the digest part of the filename of position i+1 is the digest part of
\* neither the start page's filename nor the filename of a position 0..i.
C4_NextUrlNotDerivable ==
    pc = "done" =>
        \A T \in TeamIds :
            (AllResolve(T) /\ DistinctChainCodes(T)) =>
                \A i \in 0..(Len(SequenceOf(T)) - 2) :
                    \A q \in PagesAt(T, i + 1) :
                        /\ \A s \in StartPages(T) :
                              DigestOf(FileName(q)) # DigestOf(FileName(s))
                        /\ \A j \in 0..i :
                              \A p \in PagesAt(T, j) :
                                  DigestOf(FileName(q)) # DigestOf(FileName(p))

\* ------------------------------------------------------------------------
\* C5  Secret non-exposure on player pages
\* ------------------------------------------------------------------------
\* C5: in every state, no written start page or task page embeds a value in
\* which a task code or a start code occurs in clear (as written or
\* normalized), and the unlock secret of every page that has one is the
\* SHA-256 of the code of the task of that page.
C5_NoPlaintextCode ==
    \A p \in PlayerPages :
        /\ \A c \in Plaintexts(TaskCodes \cup StartCodes) : ~Embeds(dist[p], c)
        /\ dist[p].TASK_CONFIG # <<>> =>
              \E t \in TaskIds :
                  /\ dist[p].TEAM_CONFIG[1].taskId = t
                  /\ TaskFiles[t].code # NULL
                  /\ dist[p].TASK_CONFIG[1].correctHashSHA256 = sha256(TaskFiles[t].code)

C5_Witness ==
    /\ pc = "done"
    /\ \E p \in TaskPages("team1") :
          /\ dist[p].TASK_CONFIG # <<>>
          /\ dist[p].TEAM_CONFIG[1].taskId = "t2"
    /\ StartPages("team1") # {}

\* ------------------------------------------------------------------------
\* C6  The listing of codes is not in the published tree
\* ------------------------------------------------------------------------
\* C6: after generate(), no file under DIST_DIR embeds a task code in clear.
C6_NoCodeListingInDist ==
    pc = "done" =>
        \A p \in DOMAIN dist :
            \A c \in Plaintexts(TaskCodes) : ~Embeds(dist[p], c)

\* ------------------------------------------------------------------------
\* C8  Determinism
\* ------------------------------------------------------------------------
\* what a run fixes of a document: everything but the cache-busting token
Stable(doc) ==
    [kind |-> doc.kind, TEAM_CONFIG |-> doc.TEAM_CONFIG,
     TASK_CONFIG |-> doc.TASK_CONFIG, href |-> doc.href, form |-> doc.form]

VariantsAgree ==
    \A c \in AllStrings :
        /\ Normalize(Normalize(c)) = Normalize(c)
        /\ \A v \in AllStrings :
              IsVariant(v, c) =>
                  /\ md5(v) = md5(Normalize(c))
                  /\ sha256(v) = sha256(Normalize(c))

\* C8: normalization is idempotent, the filename digest and the secret of
\* every case / whitespace variant of a code are those of the normalized
\* code, and a completed run over the content of an earlier completed run
\* writes the same page files with the same links and secrets, although the
\* cache-busting token of the two runs differs.
C8_Determinism ==
    /\ VariantsAgree
    /\ (pc = "done" /\ prevDist # <<>>) =>
          /\ DOMAIN dist = DOMAIN prevDist
          /\ \A p \in DOMAIN dist : Stable(dist[p]) = Stable(prevDist[p])

C8_Witness ==
    /\ pc = "done"
    /\ prevDist # <<>>
    /\ \E p \in TaskPages("team1") :
          /\ dist[p].TASK_CONFIG # <<>>
          /\ dist[p].GAME_VERSION # prevDist[p].GAME_VERSION
    /\ IsVariant(<<" ", "b">>, <<"B", " ">>)
    /\ md5(<<" ", "b">>) = md5(<<"B", " ">>)

\* ------------------------------------------------------------------------
\* C9  Unlock secret iff not terminal
\* ------------------------------------------------------------------------
\* the number of pages of the team's chain: the sequence entries that resolve
ChainLength(T) ==
    Cardinality({i \in 1..Len(SequenceOf(T)) : SequenceOf(T)[i] \in TaskIds})

IsTerminalPage(p) ==
    dist[p].TEAM_CONFIG[1].step = ChainLength(dist[p].TEAM_CONFIG[1].teamId)

\* C9: in every state, a written task page that is the last of its team's
\* chain embeds no TASK_CONFIG (no secret, no next filename) and no code
\* form, and every other written task page embeds the code form, a
\* non-empty unlock secret and a non-empty next filename.
C9_SecretIffNotTerminal ==
    \A T \in TeamIds :
        \A p \in TaskPages(T) :
            IF IsTerminalPage(p)
            THEN dist[p].TASK_CONFIG = <<>> /\ ~dist[p].form
            ELSE /\ dist[p].form
                 /\ dist[p].TASK_CONFIG # <<>>
                 /\ dist[p].TASK_CONFIG[1].correctHashSHA256 # <<>>
                 /\ dist[p].TASK_CONFIG[1].nextTaskFile # <<>>

C9_Witness ==
    /\ pc = "done"
    /\ \E p, q \in TaskPages("team1") :
          /\ IsTerminalPage(p) /\ dist[p].TASK_CONFIG = <<>>
          /\ ~IsTerminalPage(q) /\ dist[q].TASK_CONFIG # <<>>

\* ------------------------------------------------------------------------
\* C10  An unresolved task id is fatal
\* ------------------------------------------------------------------------
\* C10: generate() never completes normally (pc = "done", exit code 0) when
\* the sequence of some team references a task id that has no task.
C10_MissingTaskIsFatal ==
    pc = "done" => \A T \in TeamIds : AllResolve(T)

\* ------------------------------------------------------------------------
\* C11  A code-less task before the end of a chain is rejected
\* ------------------------------------------------------------------------
\* the team's sequence has a task without a code that is followed by another
\* task of the chain
CodelessBeforeEnd(T) ==
    \E i, j \in 1..Len(SequenceOf(T)) :
        /\ i < j
        /\ SequenceOf(T)[i] \in TaskIds
        /\ TaskFiles[SequenceOf(T)[i]].code = NULL
        /\ SequenceOf(T)[j] \in TaskIds

C12_NoPartialOutput ==
    pc = "error" => dist = startDist

\* ------------------------------------------------------------------------
\* C13  A sequence of one task
\* ------------------------------------------------------------------------
SingleTask(T) ==
    /\ Len(SequenceOf(T)) = 1
    /\ AllResolve(T)
    /\ teamFiles[T].start_code # NULL

\* C13: for every team with a start code whose sequence is exactly one
\* existing task, with or without a code, generate() does not stop while
\* building that team, and when it has completed the team has exactly one
\* start page and one task page, the task page has no form and no
\* TASK_CONFIG, and the start page links to it.
C13_SingleTaskTwoPages ==
    \A T \in TeamIds :
        SingleTask(T) =>
            /\ ~(pc = "error" /\ CurrentTeamId = T)
            /\ pc = "done" =>
                  /\ Cardinality(StartPages(T)) = 1
                  /\ Cardinality(TaskPages(T)) = 1
                  /\ \A q \in TaskPages(T) :
                        /\ ~dist[q].form
                        /\ dist[q].TASK_CONFIG = <<>>
                        /\ \A st \in StartPages(T) : dist[st].href = FileName(q)

\* ------------------------------------------------------------------------
\* C15  The 'get answer' control
\* ------------------------------------------------------------------------
\* the stored penalty of every build
Penalties(store) == [v \in 1..MaxRuns |-> PenaltyIn(store, v)]

\* a step in which a document was loaded and init() ran: nothing is awaited,
\* armed or typed, the page_view timeout is armed and the control is enabled
LoadStep ==
    /\ page' # <<>>
    /\ pageViewDue'
    /\ navigating' = <<>>
    /\ pending' = <<>>
    /\ input' = <<>>
    /\ hideTimers' = 0
    /\ ~errorVisible'
    /\ ~hintUsed'

\* a step in which the control took effect on the loaded page
HintTakesEffect == page # <<>> /\ page' = page /\ ~hintUsed /\ hintUsed'

\* C15: the stored penalty changes only in a step in which the enabled
\* 'get answer' control is used and becomes disabled; that step raises the
\* penalty by the hint_penalty_minutes of the loaded configuration, which is
\* the amount the control announces; and a disabled control stays disabled
\* until a document is loaded.
C15_HintOnce ==
    [][/\ Penalties(sessionStorage') # Penalties(sessionStorage) => HintTakesEffect
       /\ HintTakesEffect =>
             /\ PenaltyIn(sessionStorage', Doc.GAME_VERSION)
                    = getPenalty + config.hint_penalty_minutes
             /\ Doc.help # <<>>
             /\ Doc.help[1].announced = config.hint_penalty_minutes
       /\ (hintUsed /\ ~LoadStep) => hintUsed']_vars

\* ------------------------------------------------------------------------
\* C16  The penalty persists for the session
\* ------------------------------------------------------------------------
\* C16: in every step the stored penalty of every build is at least what it
\* was, and a step that loads a document (a reload, a navigation, another
\* page) leaves it unchanged.
C16_PenaltyPersists ==
    [][\A v \in 1..MaxRuns :
          /\ PenaltyIn(sessionStorage', v) >= PenaltyIn(sessionStorage, v)
          /\ LoadStep => PenaltyIn(sessionStorage', v) = PenaltyIn(sessionStorage, v)]_vars

\* the final page of team1 is loaded with the penalty accrued on a page
\* loaded before
C16_Witness ==
    /\ page # <<>>
    /\ Doc.kind = "task"
    /\ Doc.TEAM_CONFIG[1].teamId = "team1"
    /\ Doc.TASK_CONFIG = <<>>
    /\ pageViewDue
    /\ getPenalty = 3

\* ------------------------------------------------------------------------
\* C17  A reload does not restart the countdown
\* ------------------------------------------------------------------------
IsTimerKey(k) == k[1] = "treasureHuntTimer_"

TimerKeys(store) == {k \in DOMAIN store : IsTimerKey(k)}

\* C17: on every loaded page with a countdown a start time is stored under
\* the key of the page's team and step, the remaining time is the timeout
\* less the time since the stored start, and the page is timed out exactly
\* when nothing remains; and a stored start time is never changed or removed
\* by any step.
C17_ReloadKeepsCountdown ==
    /\ []((page # <<>> /\ HasCountdown(Doc)) =>
            /\ getTimerKey(Doc) \in DOMAIN sessionStorage
            /\ sessionStorage[getTimerKey(Doc)] \in 1..now
            /\ timeRemaining = Remaining(Doc, sessionStorage[getTimerKey(Doc)], now)
            /\ timedOut <=> timeRemaining = 0)
    /\ [][\A k \in TimerKeys(sessionStorage) :
            /\ k \in DOMAIN sessionStorage'
            /\ sessionStorage'[k] = sessionStorage[k]]_vars

\* team2's page with a countdown was loaded again after it had timed out and
\* the control had been used on it: it is timed out on arrival
C17_Witness ==
    /\ page # <<>>
    /\ HasCountdown(Doc)
    /\ Doc.TEAM_CONFIG[1].teamId = "team2"
    /\ DOMAIN sessionStorage = {PENALTY_STORAGE_KEY, getTimerKey(Doc)}
    /\ getPenalty > 0
    /\ ~hintUsed
    /\ timedOut
    /\ helpShown
    /\ now > sessionStorage[getTimerKey(Doc)] + Doc.TASK_CONFIG[1].timeoutMinutes * MinuteLen

\* ------------------------------------------------------------------------
\* C7  Verification correctness
\* ------------------------------------------------------------------------
\* the case / whitespace variants of the code of each task that has one
CodeVariants ==
    [t \in {u \in TaskIds : TaskFiles[u].code # NULL} |->
        {v \in AllStrings : IsVariant(v, TaskFiles[t].code)}]

\* the loaded document is a task page with a code form
OnCodePage == page # <<>> /\ Doc.kind = "task" /\ Doc.form

\* the code of the task of the loaded page
PageCode == TaskFiles[Doc.TEAM_CONFIG[1].taskId].code

\* verifyAndRedirect(s) ends in the acceptance branch on a page that embeds
\* the secret the generator derives from code
Accepts(code, s) ==
    /\ trim(s) # <<>>
    /\ Success([TASK_CONFIG |-> <<[correctHashSHA256 |-> sha256(code)]>>], s)

\* for every task code: every variant is accepted, every string that
\* normalizes differently is rejected
VariantsAccepted ==
    \A t \in DOMAIN CodeVariants :
        \A s \in AllStrings :
            /\ s \in CodeVariants[t] => Accepts(TaskFiles[t].code, s)
            /\ Normalize(s) # Normalize(TaskFiles[t].code) =>
                  ~Accepts(TaskFiles[t].code, s)

\* a step in which the digest of the k-th awaiting call arrived and the rest
\* of verifyAndRedirect ran (it posts the code_attempt event)
VerificationEnds(k) ==
    /\ page # <<>>
    /\ page' = page
    /\ k \in 1..Len(pending)
    /\ pending' = Remove(pending, k)
    /\ Len(inflight') > Len(inflight)

\* C7: every loaded page with a code form embeds the secret derived from the
\* code of its task, against which every string that is a case / surrounding-
\* whitespace variant of that code is accepted and every string whose
\* normalized form differs from the normalized code is rejected; and
\* whenever a verification ends on such a page, a variant makes the page
\* navigate to the embedded next filename, while a string that normalizes
\* differently shows the error, clears the input and leaves the navigation
\* untouched.
C7_VerificationCorrect ==
    /\ [](/\ VariantsAccepted
          /\ OnCodePage => Doc.TASK_CONFIG[1].correctHashSHA256 = sha256(PageCode))
    /\ [][\A k \in 1..MaxPending :
            VerificationEnds(k) =>
                /\ pending[k] \in CodeVariants[Doc.TEAM_CONFIG[1].taskId] =>
                      /\ navigating' = <<Resolve(Doc.TASK_CONFIG[1].nextTaskFile)>>
                      /\ input' = input
                /\ Normalize(pending[k]) # Normalize(PageCode) =>
                      /\ navigating' = navigating
                      /\ errorVisible'
                      /\ input' = <<>>]_vars

\* a variant of the code, not the code as written, was accepted: the attempt
\* was reported as a success and the page navigates to the next written page
C7_Witness ==
    /\ OnCodePage
    /\ Doc.TEAM_CONFIG[1].taskId = "t1"
    /\ pending = <<>>
    /\ input = <<" ", "A">>
    /\ inflight # <<>>
    /\ inflight[Len(inflight)].type = "code_attempt"
    /\ inflight[Len(inflight)].success = "true"
    /\ navigating = <<Resolve(Doc.TASK_CONFIG[1].nextTaskFile)>>
    /\ navigating[1] \in DOMAIN dist

\* ------------------------------------------------------------------------
\* C18  Completion notification
\* ------------------------------------------------------------------------
\* the page the loaded page links to is written and is a final page
SuccessorIsFinal ==
    /\ OnCodePage
    /\ Resolve(Doc.TASK_CONFIG[1].nextTaskFile) \in DOMAIN dist
    /\ dist[Resolve(Doc.TASK_CONFIG[1].nextTaskFile)].TASK_CONFIG = <<>>

\* C18: whenever a verification ends with the correct code on a page whose
\* successor is the team's final page, the step that assigns the navigation
\* also posts a game_complete event.
C18_CompletionNotified ==
    [][\A k \in 1..MaxPending :
          (VerificationEnds(k) /\ SuccessorIsFinal /\ Success(Doc, pending[k])) =>
              /\ navigating' # <<>>
              /\ \E i \in 1..Len(inflight') : inflight'[i].type = "game_complete"]_vars

\* ------------------------------------------------------------------------
\* C19  Transport failures never interrupt play
\* ------------------------------------------------------------------------
\* everything of the runtime but the requests in flight
runtimeVars == <<location, page, navigating, input, errorVisible, pending,
                 pageViewDue, hideTimers, sessionStorage, timerVars>>

\* C19: a step that changes the requests in flight is the settling of the
\* oldest request, which leaves the whole runtime state as it is (outcome of
\* submissions, navigation target, countdown, penalty, error message) and
\* sends nothing again; or the sending of new requests by a handler that
\* changes the runtime state; or the loading of a document.
C19_TransportNeverInterrupts ==
    [][inflight' # inflight =>
          \/ /\ inflight # <<>>
             /\ inflight' = Tail(inflight)
             /\ UNCHANGED runtimeVars
          \/ /\ Len(inflight') > Len(inflight)
             /\ SubSeq(inflight', 1, Len(inflight)) = inflight
             /\ runtimeVars' # runtimeVars
          \/ LoadStep]_vars

\* the request of an accepted attempt has settled and the navigation it
\* started is still assigned
C19_Witness ==
    /\ OnCodePage
    /\ navigating = <<Resolve(Doc.TASK_CONFIG[1].nextTaskFile)>>
    /\ pending = <<>>
    /\ inflight = <<>>
    /\ ~errorVisible

\* ------------------------------------------------------------------------
\* The tab and the collector together
\* ------------------------------------------------------------------------
\* the oldest request of the tab reaches the collector and is answered
Deliver ==
    /\ inflight # <<>>
    /\ Ingest(Head(inflight))
    /\ inflight' = Tail(inflight)
    /\ UNCHANGED <<genVars, location, page, navigating, input, errorVisible,
                   pending, pageViewDue, hideTimers, sessionStorage, timerVars>>

\* what the player types in the behaviours with overlapping submissions
RaceTyped == {<<"a">>, <<"b">>}

\* the URL the player comes back to: the first task page of team1
RaceEntrances == PagesAt("team1", 0)

RaceInit == GenInit(SessionTeamFileSets, PlayConfigFiles) /\ ClientInit /\ ServerInit

\* a player who submits again before the digest of the last submission has
\* arrived, while the collector receives or misses the notifications
DoubleSubmitNext ==
    \/ LoadContent
    \/ CleanDist
    \/ BuildChain
    \/ WriteStartPage
    \/ WriteTaskPage
    \/ WriteIndex
    \/ WriteAdmin
    \/ WriteTesting
    \/ \E path \in RaceEntrances : OpenPage(path)
    \/ \E code \in RaceTyped : SubmitForm(code)
    \/ \E k \in 1..MaxPending : DigestDone(k)
    \/ FollowNavigation
    \/ PageViewTimeout
    \/ HideError
    \/ FetchSettles
    \/ Deliver

DoubleSubmitSpec == RaceInit /\ [][DoubleSubmitNext]_vars

\* a player who submits, also again before the digest of the last
\* submission has arrived, while the countdown of the page runs
CountdownRaceNext ==
    \/ LoadContent
    \/ CleanDist
    \/ BuildChain
    \/ WriteStartPage
    \/ WriteTaskPage
    \/ WriteIndex
    \/ WriteAdmin
    \/ WriteTesting
    \/ \E path \in RaceEntrances : OpenPage(path)
    \/ \E code \in RaceTyped : SubmitForm(code)
    \/ \E k \in 1..MaxPending : DigestDone(k)
    \/ FollowNavigation
    \/ PageViewTimeout
    \/ HideError
    \/ Tick
    \/ FetchSettles

CountdownRaceSpec == RaceInit /\ [][CountdownRaceNext]_vars

\* ------------------------------------------------------------------------
\* C14  Monotonic progress
\* ------------------------------------------------------------------------
\* C14: in every step of the collector, the step recorded for a team that
\* has a record before and after the step is at least what it was (a reset
\* removes every record), and a record is created with a step of at least 0.
C14_MonotonicProgress ==
    /\ [](\A T \in DOMAIN teamStatus : teamStatus[T].currentStep >= 0)
    /\ [][\A T \in DOMAIN teamStatus \cap DOMAIN teamStatus' :
            teamStatus'[T].currentStep >= teamStatus[T].currentStep]_vars

\* a page_view of step 0 arrived after the page_view of step MaxStep and
\* was logged without lowering the recorded step
C14_Witness ==
    /\ Len(events) = 2
    /\ events[1].body = Notification("page_view", "team1", MaxStep, "undefined")
    /\ events[2].body = Notification("page_view", "team1", 0, "undefined")
    /\ teamStatus["team1"].currentStep = MaxStep

\* ------------------------------------------------------------------------
\* C20  reset()
\* ------------------------------------------------------------------------
\* C20: whenever the request handled last is a reset, the event log is empty
\* and no team has a record; and the step that handles a reset leaves the
\* list of subscribers as it is and writes one reset message to each of
\* their connections that has not closed.
C20_ResetClears ==
    /\ [](lastHandled = "reset" => (events = <<>> /\ DOMAIN teamStatus = {}))
    /\ [][(lastHandled' = "reset" /\ sockets' = sockets) =>
            /\ sseClients' = sseClients
            /\ DOMAIN streams' = DOMAIN streams
            /\ \A c \in Range(sseClients) :
                  sockets[c] # "closed" =>
                      streams'[c] = Append(streams[c],
                          [type |-> "reset", events |-> <<>>,
                           teamStatus |-> NoTeamStatus])]_vars

\* a subscriber that was sent a log with an event and a team record at
\* connection time has been told of the reset that emptied them
C20_Witness ==
    /\ lastHandled = "reset"
    /\ events = <<>>
    /\ sseClients = <<1>>
    /\ Len(streams[1]) = 2
    /\ streams[1][1].type = "init"
    /\ streams[1][1].events # <<>>
    /\ DOMAIN streams[1][1].teamStatus # {}
    /\ streams[1][2].type = "reset"

\* ------------------------------------------------------------------------
\* C21  The penalty is team-scoped
\* ------------------------------------------------------------------------
\* the penalty a document shows (updatePenaltyDisplay) and reports in its
\* events (trackEvent) when loaded over a storage
PenaltyShownOn(store, doc) == PenaltyIn(store, doc.GAME_VERSION)

\* C21: a step in which the 'get answer' control takes effect on a page of
\* one team leaves the penalty shown on and reported by every written page
\* of every other team as it was.
C21_PenaltyTeamScoped ==
    [][HintTakesEffect =>
          \A T \in TeamIds \ {Doc.TEAM_CONFIG[1].teamId} :
              \A p \in TaskPages(T) \cup StartPages(T) :
                  PenaltyShownOn(sessionStorage', dist[p])
                      = PenaltyShownOn(sessionStorage, dist[p])]_vars

\* ------------------------------------------------------------------------
\* C27  Which countdown duration a task page embeds
\* ------------------------------------------------------------------------
\* the duration the task file of a page states, NoNumber when it states none
OwnTimeout(doc) == TaskFiles[doc.TEAM_CONFIG[1].taskId].timeout_minutes

\* C27: once generation is done, every written task page with a code form
\* embeds the timeout_minutes of its own task file whenever the file states
\* one (any non-negative integer, zero included), and the default of the
\* game configuration only when the file states none.
C27_OwnTimeoutEmbedded ==
    pc = "done" =>
        \A T \in TeamIds : \A p \in TaskPages(T) :
            dist[p].TASK_CONFIG # <<>> =>
                dist[p].TASK_CONFIG[1].timeoutMinutes
                    = IF OwnTimeout(dist[p]) # NoNumber
                      THEN OwnTimeout(dist[p])
                      ELSE configFile.default_timeout_minutes

\* ------------------------------------------------------------------------
\* C28  No page overwrites another
\* ------------------------------------------------------------------------
\* the files written into the directory of a team
TeamDirectory(T) == {p \in DOMAIN dist : p[1] = T}

\* C28: every write of a start page or a task page creates a file under a
\* path no earlier page of the run was written to, and once generation is
\* done the directory of every team whose sequence tasks all resolve holds
\* exactly one page file more than its sequence has entries, also when the
\* sequence repeats a task and when teams share codes at a position.
C28_NoOverwrite ==
    /\ [][(pc \in {"startpage", "taskpage"} /\ pc' # "error") =>
              /\ DOMAIN dist \subseteq DOMAIN dist'
              /\ Cardinality(DOMAIN dist') = Cardinality(DOMAIN dist) + 1]_vars
    /\ [](pc = "done" =>
              \A T \in TeamIds :
                  AllResolve(T) =>
                      /\ TeamDirectory(T) = StartPages(T) \cup TaskPages(T)
                      /\ Cardinality(TeamDirectory(T)) = Len(SequenceOf(T)) + 1)

C28_Witness ==
    /\ pc = "done"
    /\ SequenceOf("team1") = <<"t1", "t1", "t2">>
    /\ SequenceOf("team2") = <<"t1", "t2", "fin">>
    /\ Cardinality(TeamDirectory("team1")) = 4
    /\ \E p \in PagesAt("team1", 0), q \in PagesAt("team2", 0) :
          DigestOf(FileName(p)) = DigestOf(FileName(q)) /\ p # q

\* ------------------------------------------------------------------------
\* C26  A bad sequence fails at load time
\* ------------------------------------------------------------------------
\* the sequence text of the team file is a sequence key with an empty value
\* followed by at least one line, each of them an indented "- id" item
WellFormedSequence(T) ==
    LET lines == teamFiles[T].sequence
    IN  /\ Len(lines) >= 2
        /\ lines[1] = <<"sequence", ":">>
        /\ \A k \in 2..Len(lines) :
              Len(lines[k]) = 4 /\ lines[k] = ItemLine(lines[k][4])

\* C26: when the sequence text of a team file is missing, is a scalar, has
\* no items or has a malformed item, generate() goes no further than
\* loading: it is either not yet started or stopped with an error before
\* the output tree was touched; so whenever generation is past loading,
\* every loaded sequence is a non-empty list holding every written item.
C26_BadSequenceFailsAtLoad ==
    /\ \A T \in TeamIds :
          ~WellFormedSequence(T) =>
              \/ pc = "start"
              \/ pc = "error" /\ dist = startDist
    /\ pc \notin {"start", "error"} =>
          \A T \in TeamIds :
              /\ teams[T].sequenceIsArray
              /\ teams[T].sequence # <<>>
              /\ Len(teams[T].sequence) = Len(teamFiles[T].sequence) - 1

\* ------------------------------------------------------------------------
\* C25  Subscribers do not block ingestion
\* ------------------------------------------------------------------------
\* C25: whatever the subscribers are doing (none connected, reading, not
\* reading, gone but not yet removed), the collector can handle every
\* notification as long as the log has room, and the step that handles one
\* appends its event to the log with the next id, applies it to the team
\* records and ends with the acknowledgement.
C25_IngestionNeverBlocked ==
    /\ [](\A body \in StreamNotifications :
              Len(events) < MaxEvents => ENABLED PostEvent(body))
    /\ [][events' # events =>
              /\ lastHandled' = "event"
              /\ \E body \in StreamNotifications :
                    /\ events' = Append(events, [id |-> Len(events) + 1,
                                                 body |-> body])
                    /\ teamStatus' = Applied(teamStatus, body)]_vars

\* two notifications were logged and applied while the only subscriber,
\* connected before them, was gone and not yet removed
C25_Witness ==
    /\ lastHandled = "event"
    /\ Len(events) = 2
    /\ "team1" \in DOMAIN teamStatus
    /\ sseClients = <<1>>
    /\ sockets[1] = "closed"
    /\ streams[1] = <<[type |-> "init", events |-> <<>>, teamStatus |-> NoTeamStatus]>>

\* ------------------------------------------------------------------------
\* C29  A subscriber sees every event once, in order
\* ------------------------------------------------------------------------
\* the events a connection has been sent, in the order of sending
EventsSeen(stream) == Concat([k \in 1..Len(stream) |-> stream[k].events])

\* C29: as long as no reset is handled, the first message on a connection
\* is the snapshot and every later one carries one event; while the
\* subscriber has not gone away, the events of the snapshot followed by
\* those of the later messages are exactly the log; and once it has gone
\* away nothing more is sent on its connection.
C29_ExactlyOnceInOrder ==
    /\ [](\A c \in DOMAIN streams :
              /\ streams[c][1].type = "init"
              /\ \A k \in 2..Len(streams[c]) :
                    streams[c][k].type = "new_event" /\ Len(streams[c][k].events) = 1
              /\ sockets[c] # "closed" => EventsSeen(streams[c]) = events)
    /\ [][\A c \in DOMAIN streams \cap DOMAIN streams' :
              sockets[c] = "closed" => streams'[c] = streams[c]]_vars

\* a subscriber that connected after the first event has been sent the
\* second one as a message of its own
C29_Witness ==
    /\ sseClients = <<1>>
    /\ sockets[1] # "closed"
    /\ Len(events) = 2
    /\ Len(streams[1]) = 2
    /\ Len(streams[1][1].events) = 1
    /\ streams[1][2].events = <<events[2]>>

\* ------------------------------------------------------------------------
\* C22  The countdown expires once
\* ------------------------------------------------------------------------
\* a page of the team with a countdown and a help block is loaded
TimedPage(T) ==
    /\ page # <<>>
    /\ HasCountdown(Doc)
    /\ Doc.help # <<>>
    /\ Doc.TEAM_CONFIG[1].teamId = T

\* the countdown of the loaded page ends before the clock of the model does
WithinHorizon ==
    getStartTime(sessionStorage, Doc) + Doc.TASK_CONFIG[1].timeoutMinutes * MinuteLen
        <= MaxClock

\* the timeout notifications among the requests in flight
TimeoutsIn(queue) == {k \in 1..Len(queue) : queue[k].type = "timeout"}

\* steps that only the loading of a document takes: the page_view timeout
\* becomes armed, another document is shown, or a timeout is recorded while
\* the clock stands
DocumentLoaded ==
    \/ ~pageViewDue /\ pageViewDue'
    \/ page' # page /\ page' # <<>>
    \/ ~timedOut /\ timedOut' /\ now' = now

\* C22: on a page with a countdown and a help block, with no code accepted,
\* the page eventually offers the help or is left; the help is offered and
\* the timeout recorded together, and both stay until a document is loaded;
\* the step that records the timeout sends exactly one timeout
\* notification, a load that finds the countdown expired sends exactly one,
\* and no other step sends any.
C22_ExpiresOnce ==
    /\ \A T \in {"team1", "team2"} :
          (TimedPage(T) /\ WithinHorizon) ~> (~TimedPage(T) \/ helpShown)
    /\ [](\A T \in {"team1", "team2"} : TimedPage(T) => (helpShown <=> timedOut))
    /\ [][(~LoadStep \/ now' # now) =>
            /\ (helpShown => helpShown') /\ (timedOut => timedOut')
            /\ IF ~timedOut /\ timedOut'
               THEN /\ timeRemaining' = 0
                    /\ inflight' = Append(inflight, inflight'[Len(inflight')])
                    /\ inflight'[Len(inflight')].type = "timeout"
               ELSE Cardinality(TimeoutsIn(inflight'))
                        <= Cardinality(TimeoutsIn(inflight))]_vars
    /\ [][DocumentLoaded =>
            /\ Cardinality(TimeoutsIn(inflight')) = IF timedOut' THEN 1 ELSE 0
            /\ timedOut' <=> (\E T \in {"team1", "team2"} : TimedPage(T)'
                                 /\ timeRemaining' = 0)]_vars

\* the help is offered on a page whose countdown was running when the page
\* was loaded, and the timeout notification is on its way
C22_Witness ==
    /\ TimedPage("team1")
    /\ helpShown /\ timedOut /\ ~timerInterval
    /\ timeRemaining = 0
    /\ now = getStartTime(sessionStorage, Doc) + 2 * MinuteLen
    /\ ~pageViewDue
    /\ inflight # <<>> /\ inflight[Len(inflight)].type = "timeout"

\* ------------------------------------------------------------------------
\* C23  Recovery after a rejected submission
\* ------------------------------------------------------------------------
\* a step in which showError() ran on the loaded page
ErrorShown == page # <<>> /\ page' = page /\ hideTimers' = hideTimers + 1

\* C23: on a page with a code form, a submission of blank input and a
\* verification that ends with a string normalizing differently from the
\* code both run showError(); that step shows the message, clears the input
\* and leaves page and navigation as they are; a shown message has a timeout
\* armed and is eventually hidden; and with a message shown or a timeout
\* armed the code of the page can still be submitted, and a verification
\* that ends with a variant of the code navigates to the embedded next
\* filename.
C23_RejectionRecovers ==
    /\ [](OnCodePage /\ hideTimers < MaxHideTimers =>
              /\ ENABLED (SubmitForm(<<" ">>) /\ ErrorShown)
              /\ ~ENABLED (SubmitForm(<<" ">>) /\ ~ErrorShown))
    /\ [][/\ \A k \in 1..MaxPending :
                (OnCodePage /\ VerificationEnds(k)
                 /\ Normalize(pending[k]) # Normalize(PageCode)) => ErrorShown
          /\ ErrorShown =>
                /\ errorVisible' /\ input' = <<>>
                /\ navigating' = navigating /\ location' = location
          /\ \A k \in 1..MaxPending :
                (OnCodePage /\ VerificationEnds(k) /\ (errorVisible \/ hideTimers > 0)
                 /\ pending[k] \in CodeVariants[Doc.TEAM_CONFIG[1].taskId]) =>
                    navigating' = <<Resolve(Doc.TASK_CONFIG[1].nextTaskFile)>>]_vars
    /\ [](errorVisible => hideTimers > 0)
    /\ [](OnCodePage /\ Len(pending) < MaxPending => ENABLED SubmitForm(PageCode))
    /\ errorVisible ~> ~errorVisible

\* a code was accepted while the message of an earlier rejection was shown
C23_Witness ==
    /\ OnCodePage
    /\ errorVisible /\ hideTimers > 0
    /\ navigating = <<Resolve(Doc.TASK_CONFIG[1].nextTaskFile)>>
    /\ inflight # <<>>
    /\ inflight[Len(inflight)].type = "code_attempt"
    /\ inflight[Len(inflight)].success = "true"

\* ------------------------------------------------------------------------
\* C24  Overlapping submissions
\* ------------------------------------------------------------------------
\* the step each logged event of a team reports reaching: the step of a
\* page_view, and the step after that of a successful code_attempt
StepsReported(T) ==
    {0} \cup {events[k].body.step : k \in {j \in 1..Len(events) :
                  events[j].body.teamId = T /\ events[j].body.type = "page_view"}}
        \cup {events[k].body.step + 1 : k \in {j \in 1..Len(events) :
                  /\ events[j].body.teamId = T
                  /\ events[j].body.type = "code_attempt"
                  /\ events[j].body.success = "true"}}

Highest(S) == CHOOSE m \in S : \A x \in S : x <= m

Accepted == OnCodePage /\ navigating # <<>>

\* C30: from the acceptance of a code until the next document is loaded the
\* interval of the countdown is not armed, and no step, whatever
\* verifications are still under way, changes the remaining time, records a
\* timeout, offers the help or sends a timeout notification.
C30_AcceptanceStopsCountdown ==
    /\ [](Accepted => ~timerInterval)
    /\ [][(Accepted /\ navigating' # <<>>) =>
            /\ timeRemaining' = timeRemaining
            /\ timedOut' = timedOut
            /\ helpShown' = helpShown
            /\ Cardinality(TimeoutsIn(inflight'))
                  <= Cardinality(TimeoutsIn(inflight))]_vars

\* after the acceptance the clock has passed the end of the countdown, with
\* another verification still under way, and no timeout has been recorded
C30_Witness ==
    /\ Accepted
    /\ HasCountdown(Doc)
    /\ pending # <<>>
    /\ now >= getStartTime(sessionStorage, Doc)
                 + Doc.TASK_CONFIG[1].timeoutMinutes * MinuteLen
    /\ timeRemaining > 0
    /\ ~timedOut /\ ~helpShown

====
